---- MODULE Spec2Model ----
(***************************************************************************)
(* Model of find_text_fuzzy (src/app.py, lines 42-120): the quote-to-      *)
(* document localization engine of the reconstruction app, and of the      *)
(* per-document loop that calls it (src/app.py, lines 758-767).            *)
(*                                                                         *)
(* Strings are sequences of one-character strings.  A similarity score is  *)
(* the exact rational 100*n/d kept as the record [n, d]; rapidfuzz         *)
(* computes (1.0 - dist/(len1+len2))*100 in doubles, and on every pair of  *)
(* lengths this model reaches the double comparisons (score > score,       *)
(* score >= threshold for the thresholds of Thresholds) agree with the     *)
(* rational ones.                                                          *)
(***************************************************************************)
EXTENDS Integers, Sequences, FiniteSets, TLC

VARIABLES
    pc,                 \* position in find_text_fuzzy / in the caller's loop
    pdf_bytes,          \* the document handed to the current invocation
    text_quotes,        \* the raw query list handed to the current invocation
    threshold,          \* the threshold argument
    normalized_queries, \* line 48
    annotations,        \* line 46
    page_num,           \* 0-based index of enumerate(doc), line 57
    words,              \* page.get_text("words"), line 58
    qi,                 \* 1-based position of the inner loop, line 60
    warnings,           \* st.warning calls of the current invocation, line 118
    e,                  \* the exception caught at line 117, if any
    last,               \* what the latest (query, page) pair did (history)
    log                 \* the invocations that returned, in order (history)

vars == <<pc, pdf_bytes, text_quotes, threshold, normalized_queries,
          annotations, page_num, words, qi, warnings, e, last, log>>

----------------------------------------------------------------------------
(* Bounds of the model *)

\* most words on a page of the pair specification
MaxWords == 3
\* most whitespace-delimited tokens in a query of the pair specification
MaxQTokens == 2
\* most find_text_fuzzy invocations in one batch
MaxCalls == 2
\* words on a long page of the pair specification
LongWords == 9
\* tokens of a long query of the pair specification
LongQTokens == 4

----------------------------------------------------------------------------
(* Strings *)

Max(a, b) == IF a >= b THEN a ELSE b

\* characters matched by the regular expression class \s
IsSpace(c) == c \in {" ", "\t"}

\* str.lower() on one character
LowerChar(c) == IF c = "A" THEN "a" ELSE IF c = "B" THEN "b" ELSE IF c = "C" THEN "c" ELSE c

\* str.lower()
Lower(s) == [i \in 1..Len(s) |-> LowerChar(s[i])]

\* re.sub(r'\s+', ' ', s): every maximal run of whitespace becomes one space
RECURSIVE SubSpaces(_)
SubSpaces(s) ==
    IF s = <<>> THEN <<>>
    ELSE LET rest == SubSpaces(Tail(s)) IN
         IF IsSpace(Head(s))
         THEN IF rest # <<>> /\ IsSpace(Head(Tail(s))) THEN rest ELSE <<" ">> \o rest
         ELSE <<Head(s)>> \o rest

\* str.lstrip() / str.rstrip() / str.strip()
RECURSIVE LStrip(_)
LStrip(s) == IF s # <<>> /\ IsSpace(Head(s)) THEN LStrip(Tail(s)) ELSE s

RECURSIVE RStrip(_)
RStrip(s) ==
    IF s # <<>> /\ IsSpace(s[Len(s)]) THEN RStrip(SubSeq(s, 1, Len(s) - 1)) ELSE s

Strip(s) == RStrip(LStrip(s))

\* quote_clean = re.sub(r'\s+', ' ', quote).strip()
QuoteClean(quote) == Strip(SubSpaces(quote))

\* str.split(): the whitespace-delimited tokens of s
RECURSIVE SplitFrom(_, _, _)
SplitFrom(s, cur, acc) ==
    IF s = <<>> THEN (IF cur = <<>> THEN acc ELSE Append(acc, cur))
    ELSE IF IsSpace(Head(s))
         THEN SplitFrom(Tail(s), <<>>, IF cur = <<>> THEN acc ELSE Append(acc, cur))
         ELSE SplitFrom(Tail(s), Append(cur, Head(s)), acc)

Split(s) == SplitFrom(s, <<>>, <<>>)

\* " ".join(texts)
RECURSIVE Join(_)
Join(texts) ==
    IF texts = <<>> THEN <<>>
    ELSE IF Len(texts) = 1 THEN texts[1]
    ELSE texts[1] \o <<" ">> \o Join(Tail(texts))

\* [w[4] for w in ws]
WordTexts(ws) == [j \in 1..Len(ws) |-> ws[j].text]

----------------------------------------------------------------------------
(* rapidfuzz.fuzz.ratio and rapidfuzz.fuzz.partial_ratio *)

\* one row of the longest-common-subsequence table
RECURSIVE LcsRow(_, _, _, _, _)
LcsRow(prev, c, t, j, row) ==
    IF j > Len(t) THEN row
    ELSE IF t[j] = c THEN LcsRow(prev, c, t, j + 1, Append(row, prev[j] + 1))
    ELSE IF prev[j + 1] >= row[j] THEN LcsRow(prev, c, t, j + 1, Append(row, prev[j + 1]))
    ELSE LcsRow(prev, c, t, j + 1, Append(row, row[j]))

RECURSIVE LcsRows(_, _, _, _)
LcsRows(s, t, i, prev) ==
    IF i > Len(s) THEN prev[Len(t) + 1]
    ELSE LcsRows(s, t, i + 1, LcsRow(prev, s[i], t, 1, <<0>>))

\* length of a longest common subsequence of s and t
Lcs(s, t) == LcsRows(s, t, 1, [j \in 1..(Len(t) + 1) |-> 0])

\* the score 100 * n / d
Score(n, d) == [n |-> n, d |-> d]
ZeroScore == Score(0, 1)

\* a > b, a >= t and a = 100 on scores
ScoreGT(a, b) == a.n * b.d > b.n * a.d
ScoreGE(a, t) == 100 * a.n >= t * a.d
ScoreIs100(a) == a.n = a.d

\* fuzz.ratio(s1, s2): the normalized Indel similarity, 100 * 2*lcs / (len1 + len2)
Ratio(s1, s2) ==
    IF Len(s1) + Len(s2) = 0 THEN Score(1, 1)
    ELSE Score(2 * Lcs(s1, s2), Len(s1) + Len(s2))

CharSet(s) == {s[i] : i \in 1..Len(s)}

BetterOf(a, b) == IF ScoreGT(b, a) THEN b ELSE a

\* rapidfuzz's partial_ratio for a needle s1 no longer than s2: the best ratio of
\* s1 against the prefixes shorter than s1, the windows of s1's length and the
\* suffixes of s2, leaving out the windows whose boundary character is not in s1
RECURSIVE PartialPrefixes(_, _, _, _)
PartialPrefixes(s1, s2, i, res) ==
    IF i >= Len(s1) THEN res
    ELSE IF s2[i] \notin CharSet(s1) THEN PartialPrefixes(s1, s2, i + 1, res)
    ELSE LET ls_ratio == Ratio(s1, SubSeq(s2, 1, i)) IN
         IF ScoreGT(ls_ratio, res) THEN PartialPrefixes(s1, s2, i + 1, ls_ratio)
         ELSE PartialPrefixes(s1, s2, i + 1, res)

RECURSIVE PartialWindows(_, _, _, _)
PartialWindows(s1, s2, i, res) ==
    IF i >= Len(s2) - Len(s1) THEN res
    ELSE IF s2[i + Len(s1)] \notin CharSet(s1) THEN PartialWindows(s1, s2, i + 1, res)
    ELSE LET ls_ratio == Ratio(s1, SubSeq(s2, i + 1, i + Len(s1))) IN
         IF ScoreGT(ls_ratio, res) THEN PartialWindows(s1, s2, i + 1, ls_ratio)
         ELSE PartialWindows(s1, s2, i + 1, res)

RECURSIVE PartialSuffixes(_, _, _, _)
PartialSuffixes(s1, s2, i, res) ==
    IF i >= Len(s2) THEN res
    ELSE IF s2[i + 1] \notin CharSet(s1) THEN PartialSuffixes(s1, s2, i + 1, res)
    ELSE LET ls_ratio == Ratio(s1, SubSeq(s2, i + 1, Len(s2))) IN
         IF ScoreGT(ls_ratio, res) THEN PartialSuffixes(s1, s2, i + 1, ls_ratio)
         ELSE PartialSuffixes(s1, s2, i + 1, res)

\* (no character is in an empty needle: every window is left out)
PartialRatioImpl(s1, s2) ==
    IF Len(s1) = 0 THEN ZeroScore ELSE
    PartialSuffixes(s1, s2, Len(s2) - Len(s1),
        PartialWindows(s1, s2, 0,
            PartialPrefixes(s1, s2, 1, ZeroScore)))

\* fuzz.partial_ratio(s1, s2)
PartialRatio(s1, s2) ==
    IF Len(s1) = 0 /\ Len(s2) = 0 THEN Score(1, 1)
    ELSE LET shorter == IF Len(s1) <= Len(s2) THEN s1 ELSE s2
             longer  == IF Len(s1) <= Len(s2) THEN s2 ELSE s1
             res     == PartialRatioImpl(shorter, longer)
         IN  IF ~ScoreIs100(res) /\ Len(s1) = Len(s2)
             THEN BetterOf(res, PartialRatioImpl(longer, shorter))
             ELSE res

----------------------------------------------------------------------------
(* Data *)

DefaultColor == "rgba(255, 255, 0, 0.4)"
HypotheticalColor == "rgba(255, 165, 0, 0.5)"

\* a query shorter than this after cleaning is skipped
MinQuoteLen == 5

\* best_window_indices = None
None == <<>>

\* a raw query: a bare string, a dict (with or without the keys 'text' and
\* 'color', with a 'text' that is a string or not), or anything else
StrQuery(s) ==
    [kind |-> "str", has_text |-> TRUE, text_is_str |-> TRUE, text |-> s,
     has_color |-> FALSE, color |-> ""]
DictQuery(s, c) ==
    [kind |-> "dict", has_text |-> TRUE, text_is_str |-> TRUE, text |-> s,
     has_color |-> TRUE, color |-> c]
DictQueryNoColor(s) ==
    [kind |-> "dict", has_text |-> TRUE, text_is_str |-> TRUE, text |-> s,
     has_color |-> FALSE, color |-> ""]
DictQueryNoText(c) ==
    [kind |-> "dict", has_text |-> FALSE, text_is_str |-> FALSE, text |-> <<>>,
     has_color |-> TRUE, color |-> c]
DictQueryBadText(c) ==
    [kind |-> "dict", has_text |-> TRUE, text_is_str |-> FALSE, text |-> <<>>,
     has_color |-> TRUE, color |-> c]
OtherQuery ==
    [kind |-> "other", has_text |-> FALSE, text_is_str |-> FALSE, text |-> <<>>,
     has_color |-> FALSE, color |-> ""]

\* one tuple of page.get_text("words"): (x0, y0, x1, y1, word, ...)
Word(t, x0, y0, x1, y1) == [text |-> t, x0 |-> x0, y0 |-> y0, x1 |-> x1, y1 |-> y1]

\* the words of a page whose texts are ts, laid out left to right on a line
\* whose position depends on the document and the page
LayoutWords(ts, origin) ==
    [j \in 1..Len(ts) |->
        Word(ts[j], 10 * j + origin, origin + 2, 10 * j + origin + 2 * Len(ts[j]),
             origin + 5)]

ReadablePage(ts, origin) == [readable |-> TRUE, words |-> LayoutWords(ts, origin)]
BrokenPage == [readable |-> FALSE, words |-> <<>>]
Document(pages) == [openable |-> TRUE, pages |-> pages]
UnparseableDocument == [openable |-> FALSE, pages |-> <<>>]

----------------------------------------------------------------------------
(* find_text_fuzzy, lines 47-53: the query normalizer *)

RECURSIVE NormalizeQueries(_)
NormalizeQueries(qs) ==
    IF qs = <<>> THEN <<>>
    ELSE LET q == Head(qs) IN
         (IF q.kind = "str" THEN <<DictQuery(q.text, DefaultColor)>>
          ELSE IF q.kind = "dict" THEN <<q>>
          ELSE <<>>) \o NormalizeQueries(Tail(qs))

\* line 46
NotReset(previous) == previous
FreshAnnotations(previous) == <<>>

----------------------------------------------------------------------------
(* find_text_fuzzy, lines 83-98: the window scan *)

NoWindow == [score |-> ZeroScore, indices |-> None, scored |-> <<>>]

\* line 89: range(max(1, quote_word_count - 2), quote_word_count + 5)
SizesAboveCount(quote_word_count) == quote_word_count + 1
FirstWindowSize(quote_word_count) == Max(1, quote_word_count - 2)
CountPlusFive(quote_word_count) == quote_word_count + 5
LastWindowSize(quote_word_count) == quote_word_count + 4

\* line 96
LastMaximum(window_score, best_window_score) == ~ScoreGT(best_window_score, window_score)
IsNewBest(window_score, best_window_score) == ScoreGT(window_score, best_window_score)

\* line 98: best_window_indices = (i, i + window_size)
StartAndSize(i, window_size) == <<i, window_size>>
SpanOf(i, window_size) == <<i, i + window_size>>

\* lines 89-98: the inner loop from window_size on, for the start index i
RECURSIVE ScanSizes(_, _, _, _, _, _)
ScanSizes(ws, quote_low, i, window_size, last_size, best) ==
    IF window_size > last_size THEN best
    ELSE IF i + window_size > Len(ws) THEN best
    ELSE LET window_text  == Join(WordTexts(SubSeq(ws, i + 1, i + window_size)))
             window_score == Ratio(quote_low, Lower(window_text))
             scored       == Append(best.scored, <<i, window_size>>)
         IN  IF IsNewBest(window_score, best.score)
             THEN ScanSizes(ws, quote_low, i, window_size + 1, last_size,
                     [score |-> window_score, indices |-> SpanOf(i, window_size),
                      scored |-> scored])
             ELSE ScanSizes(ws, quote_low, i, window_size + 1, last_size,
                     [best EXCEPT !.scored = scored])

\* lines 87-98: the outer loop from the start index i on
RECURSIVE ScanStarts(_, _, _, _, _)
ScanStarts(ws, quote_low, quote_word_count, i, best) ==
    IF i >= Len(ws) THEN best
    ELSE ScanStarts(ws, quote_low, quote_word_count, i + 1,
            ScanSizes(ws, quote_low, i, FirstWindowSize(quote_word_count),
                      LastWindowSize(quote_word_count), best))

WindowScan(ws, quote_clean) ==
    ScanStarts(ws, Lower(quote_clean), Len(Split(quote_clean)), 0, NoWindow)

----------------------------------------------------------------------------
(* find_text_fuzzy, lines 60-115: one (query, page) pair *)

\* line 66
SkipsUpTo(quote_clean) == Len(quote_clean) <= MinQuoteLen
TooShort(quote_clean) == Len(quote_clean) < MinQuoteLen

\* line 73
PrefilterScore(quote_clean, ws) ==
    PartialRatio(Lower(quote_clean), Lower(Join(WordTexts(ws))))

\* line 75
PassesAtMost(score, thr) == ~ScoreGT(score, Score(thr, 100))
PassesPrefilter(score, thr) == ScoreGE(score, thr)

\* line 100
AcceptsOnPrefilter(score, best_window_score, thr) == ScoreGE(score, thr)
Accepts(score, best_window_score, thr) == ScoreGE(best_window_score, thr)

\* line 114
StoredClean(query_item) == QuoteClean(query_item.text)
StoredQuote(query_item) == query_item.text

\* line 62
ColorOrNothing(query_item) ==
    IF query_item.has_color THEN query_item.color ELSE ""
QueryColor(query_item) ==
    IF query_item.has_color THEN query_item.color ELSE DefaultColor

\* lines 107-115
BoxOfSpan(w, pnum, query_item) ==
    [page |-> pnum + 1, x |-> w.x0, y |-> w.y0, width |-> w.x1, height |-> w.y1,
     color |-> QueryColor(query_item), quote |-> StoredQuote(query_item)]
Annotation(w, pnum, query_item) ==
    [page |-> pnum + 1, x |-> w.x0, y |-> w.y0, width |-> w.x1 - w.x0,
     height |-> w.y1 - w.y0, color |-> QueryColor(query_item),
     quote |-> StoredQuote(query_item)]

\* lines 101-115
Emit(ws, indices, pnum, query_item) ==
    LET matched_words == SubSeq(ws, indices[1] + 1, indices[2])
    IN  [j \in 1..Len(matched_words) |-> Annotation(matched_words[j], pnum, query_item)]

PairOutcome(outcome, score, best, new) ==
    [outcome |-> outcome, score |-> score, best_window_score |-> best.score,
     best_window_indices |-> best.indices, scored |-> best.scored, new |-> new]

\* line 107: annotations.append, once for each matched word in word order
Prepended(anns, new) == new \o anns
Appended(anns, new) == anns \o new

\* the body of the loop of line 60 for one query on one page
ProcessPair(ws, query_item, thr, pnum) ==
    IF ~query_item.has_text \/ ~query_item.text_is_str
    THEN PairOutcome("raised", ZeroScore, NoWindow, <<>>)
    ELSE LET quote_clean == QuoteClean(query_item.text) IN
         IF TooShort(quote_clean)
         THEN PairOutcome("skipped", ZeroScore, NoWindow, <<>>)
         ELSE LET score == PrefilterScore(quote_clean, ws) IN
              IF ~PassesPrefilter(score, thr)
              THEN PairOutcome("filtered", score, NoWindow, <<>>)
              ELSE LET best == WindowScan(ws, quote_clean) IN
                   IF ~Accepts(score, best.score, thr)
                   THEN PairOutcome("nomatch", score, best, <<>>)
                   ELSE IF best.indices = None
                        THEN PairOutcome("raised", score, best, <<>>)
                        ELSE PairOutcome("matched", score, best,
                                         Emit(ws, best.indices, pnum, query_item))

----------------------------------------------------------------------------
(* Inputs *)

Thresholds == {0, 1, 85, 100}

\* the word texts and query tokens of the pair specification
PageVocabulary == {<<"a", "b">>, <<"a", "b", "c">>, <<"c">>}
QueryVocabulary == {<<"A", "b">>, <<"a", "b", "c">>, <<"c">>}

SeqsUpTo(S, lo, hi) == UNION {[1..m -> S] : m \in lo..hi}

PageTexts == SeqsUpTo(PageVocabulary, 0, MaxWords)
QueryTokens == SeqsUpTo(QueryVocabulary, 1, MaxQTokens)

\* a query text written with runs of whitespace between and around its tokens
RECURSIVE JoinWith(_, _)
JoinWith(texts, sep) ==
    IF Len(texts) = 1 THEN texts[1] ELSE texts[1] \o sep \o JoinWith(Tail(texts), sep)

Untidy(tokens) == <<" ">> \o JoinWith(tokens, <<"\t", " ">>) \o <<"\t">>

PairQueries ==
    {StrQuery(Join(tokens)) : tokens \in QueryTokens}
        \cup {DictQuery(Untidy(tokens), HypotheticalColor) : tokens \in QueryTokens}

\* a page longer than the largest window of a query, and a query of enough
\* tokens for its smallest window to be of more than one word
LongPageTexts ==
    { [j \in 1..LongWords |-> <<"c">>],
      [j \in 1..LongWords |-> IF j % 2 = 0 THEN <<"a", "b">> ELSE <<"c">>] }
LongQueries ==
    { StrQuery(Join([j \in 1..LongQTokens |-> <<"c">>])),
      StrQuery(<<"A", "b", " ", "a", "b">>) }

\* the pairs of the pair specification
Pairs == (PageTexts \X PairQueries) \cup (LongPageTexts \X LongQueries)

\* the documents and query lists of a batch
Liver == <<"a", "b", "c">>
Glucose == <<"a", "b">>
Dot == <<"c">>

Documents ==
    { Document(<<ReadablePage(<<Glucose, Glucose, Glucose>>, 100),
                 ReadablePage(<<Dot, Liver, Glucose>>, 200)>>),
      Document(<<ReadablePage(<<Liver, Glucose>>, 300), BrokenPage>>),
      Document(<<ReadablePage(<<>>, 400), ReadablePage(<<Liver, Liver>>, 500)>>),
      UnparseableDocument }

QuoteLists ==
    { <<StrQuery(<<"A", "b", " ", " ", "a", "b">>), StrQuery(Liver)>>,
      <<DictQuery(<<"c", "\t", "a", "b", "c">>, HypotheticalColor),
        DictQueryNoColor(<<"a", "b", "c", " ", "a", "b">>)>>,
      <<OtherQuery, DictQuery(<<"a", "b", "c", " ", "a", "b", " ">>, DefaultColor),
        DictQueryNoText(DefaultColor)>>,
      <<DictQueryBadText(DefaultColor)>> }

BatchThresholds == {0, 85}

----------------------------------------------------------------------------
(* The state machine *)

\* no exception, and the exception raised at a place of the try block
NoError == [kind |-> "none", page_num |-> 0, appended |-> 0]
Raised(kind, pnum, anns) == [kind |-> kind, page_num |-> pnum, appended |-> Len(anns)]

NoPair ==
    [page_num |-> 0, qi |-> 0, base |-> 0,
     result |-> PairOutcome("none", ZeroScore, NoWindow, <<>>)]

\* the caller, before its first invocation (lines 753-765)
Init ==
    /\ pc = "idle"
    /\ pdf_bytes = UnparseableDocument
    /\ text_quotes = <<>>
    /\ threshold = 85
    /\ normalized_queries = <<>>
    /\ annotations = <<>>
    /\ page_num = 0
    /\ words = <<>>
    /\ qi = 1
    /\ warnings = 0
    /\ e = NoError
    /\ last = NoPair
    /\ log = <<>>

\* line 765 and lines 42-53: the call, up to the try statement
Call ==
    /\ pc = "idle"
    /\ Len(log) < MaxCalls
    /\ \E d \in Documents, qs \in QuoteLists, t \in BatchThresholds :
          /\ pdf_bytes' = d
          /\ text_quotes' = qs
          /\ threshold' = t
          /\ normalized_queries' = NormalizeQueries(qs)
    /\ annotations' = FreshAnnotations(annotations)
    /\ warnings' = 0
    /\ e' = NoError
    /\ page_num' = 0
    /\ words' = <<>>
    /\ qi' = 1
    /\ last' = NoPair
    /\ pc' = "open"
    /\ UNCHANGED log

\* line 56: fitz.open succeeds
OpenDocument ==
    /\ pc = "open"
    /\ pdf_bytes.openable
    /\ pc' = "page"
    /\ UNCHANGED <<pdf_bytes, text_quotes, threshold, normalized_queries, annotations,
                   page_num, words, qi, warnings, e, last, log>>

\* line 56: fitz.open raises
OpenFails ==
    /\ pc = "open"
    /\ ~pdf_bytes.openable
    /\ pc' = "except"
    /\ e' = Raised("open", page_num, annotations)
    /\ UNCHANGED <<pdf_bytes, text_quotes, threshold, normalized_queries, annotations,
                   page_num, words, qi, warnings, last, log>>

\* lines 57-58: the next page is loaded and its words are read
ReadPage ==
    /\ pc = "page"
    /\ page_num < Len(pdf_bytes.pages)
    /\ pdf_bytes.pages[page_num + 1].readable
    /\ words' = pdf_bytes.pages[page_num + 1].words
    /\ qi' = 1
    /\ pc' = "query"
    /\ UNCHANGED <<pdf_bytes, text_quotes, threshold, normalized_queries, annotations,
                   page_num, warnings, e, last, log>>

\* lines 57-58: loading the next page or reading its words raises
ReadPageFails ==
    /\ pc = "page"
    /\ page_num < Len(pdf_bytes.pages)
    /\ ~pdf_bytes.pages[page_num + 1].readable
    /\ pc' = "except"
    /\ e' = Raised("page", page_num, annotations)
    /\ UNCHANGED <<pdf_bytes, text_quotes, threshold, normalized_queries, annotations,
                   page_num, words, qi, warnings, last, log>>

\* lines 49-53: the position, in the caller's list, of the entry the qi-th
\* normalized query comes from
RECURSIVE SourceIndex(_, _, _)
SourceIndex(quotes, k, j) ==
    IF quotes[j].kind \in {"str", "dict"}
    THEN (IF k = 1 THEN j ELSE SourceIndex(quotes, k - 1, j + 1))
    ELSE SourceIndex(quotes, k, j + 1)

\* lines 51 and 53: a bare string is wrapped in a new record, a record is
\* appended as it is, so the normalized entry is the caller's own record
CallerQuotes(quotes, k, query_item) ==
    LET j == SourceIndex(quotes, k, 1)
    IN  IF quotes[j].kind = "dict" THEN [quotes EXCEPT ![j] = query_item] ELSE quotes

\* lines 61-62: the record after its text and color are read; the text is read
\* first and the read of a missing text raises
ColorSetDefault(query_item) ==
    IF query_item.has_text
    THEN [query_item EXCEPT !.has_color = TRUE, !.color = QueryColor(query_item)]
    ELSE query_item
ColorRead(query_item) == query_item

\* lines 60-115: the next query on the current page
ProcessQuery ==
    /\ pc = "query"
    /\ qi <= Len(normalized_queries)
    /\ normalized_queries' =
          [normalized_queries EXCEPT ![qi] = ColorRead(normalized_queries[qi])]
    /\ text_quotes' = CallerQuotes(text_quotes, qi, ColorRead(normalized_queries[qi]))
    /\ \E r \in {ProcessPair(words, normalized_queries[qi], threshold, page_num)} :
          /\ last' = [page_num |-> page_num, qi |-> qi, base |-> Len(annotations),
                      result |-> r]
          /\ annotations' = Appended(annotations, r.new)
          /\ IF r.outcome = "raised"
             THEN pc' = "except" /\ qi' = qi /\ e' = Raised("query", page_num, annotations)
             ELSE pc' = "query" /\ qi' = qi + 1 /\ e' = e
    /\ UNCHANGED <<pdf_bytes, threshold, page_num, words, warnings, log>>

\* line 60: the queries are exhausted, back to line 57
EndPage ==
    /\ pc = "query"
    /\ qi > Len(normalized_queries)
    /\ page_num' = page_num + 1
    /\ pc' = "page"
    /\ UNCHANGED <<pdf_bytes, text_quotes, threshold, normalized_queries, annotations,
                   words, qi, warnings, e, last, log>>

\* line 57: the pages are exhausted
EndDocument ==
    /\ pc = "page"
    /\ page_num >= Len(pdf_bytes.pages)
    /\ pc' = "return"
    /\ UNCHANGED <<pdf_bytes, text_quotes, threshold, normalized_queries, annotations,
                   page_num, words, qi, warnings, e, last, log>>

\* lines 117-118
WarnAndContinue ==
    /\ pc = "except"
    /\ warnings' = warnings + 1
    /\ IF e.kind = "query"
       THEN pc' = "query" /\ qi' = qi + 1
       ELSE pc' = "return" /\ qi' = qi
    /\ UNCHANGED <<pdf_bytes, text_quotes, threshold, normalized_queries, annotations,
                   page_num, words, e, last, log>>
Warn ==
    /\ pc = "except"
    /\ warnings' = warnings + 1
    /\ pc' = "return"
    /\ UNCHANGED <<pdf_bytes, text_quotes, threshold, normalized_queries, annotations,
                   page_num, words, qi, e, last, log>>

\* line 120, and line 765 receiving the list
Return ==
    /\ pc = "return"
    /\ log' = Append(log, [pdf_bytes |-> pdf_bytes, text_quotes |-> text_quotes,
                           threshold |-> threshold, returned |-> annotations,
                           warnings |-> warnings, e |-> e])
    /\ pc' = "idle"
    /\ UNCHANGED <<pdf_bytes, text_quotes, threshold, normalized_queries, annotations,
                   page_num, words, qi, warnings, e, last>>

Next ==
    \/ Call
    \/ OpenDocument
    \/ OpenFails
    \/ ReadPage
    \/ ReadPageFails
    \/ ProcessQuery
    \/ EndPage
    \/ EndDocument
    \/ Warn
    \/ Return

Spec == Init /\ [][Next]_vars

\* one (query, page) pair: the state at line 60 of an invocation on a one-page
\* document with one query, for every page, query and threshold of the bounds
InitPair ==
    /\ pc = "query"
    /\ \E p \in Pairs, t \in Thresholds :
          /\ pdf_bytes = Document(<<ReadablePage(p[1], 100)>>)
          /\ words = LayoutWords(p[1], 100)
          /\ text_quotes = <<p[2]>>
          /\ normalized_queries = NormalizeQueries(<<p[2]>>)
          /\ threshold = t
    /\ annotations = <<>>
    /\ page_num = 0
    /\ qi = 1
    /\ warnings = 0
    /\ e = NoError
    /\ last = NoPair
    /\ log = <<>>

NextPair ==
    \/ ProcessQuery
    \/ EndPage
    \/ Warn

SpecPair == InitPair /\ [][NextPair]_vars

----------------------------------------------------------------------------
(* Vocabulary of the properties *)

\* the latest step handled the pair (last.qi, page_num) and nothing came after it
JustProcessed ==
    /\ last.qi # 0
    /\ last.page_num = page_num
    /\ \/ pc = "query" /\ qi = last.qi + 1
       \/ pc = "except" /\ qi = last.qi /\ e.kind = "query"

\* the query of that pair, its original text and its cleaned text
LastQuery == normalized_queries[last.qi]
LastHasText == LastQuery.has_text /\ LastQuery.text_is_str
LastClean == QuoteClean(LastQuery.text)

\* the pair went through the window scan
Scanned ==
    \/ last.result.outcome \in {"matched", "nomatch"}
    \/ last.result.outcome = "raised" /\ LastHasText

\* the text of the words [i, j) of the page, lower-cased
SpanText(i, j) == Lower(Join(WordTexts(SubSeq(words, i + 1, j))))
PageText == Lower(Join(WordTexts(words)))

IsSubstring(s, t) ==
    \E i \in 0..(Len(t) - Len(s)) : SubSeq(t, i + 1, i + Len(s)) = s

\* s is the text of a run of whole words of the page
IsWordRun(s) ==
    \E i \in 0..Len(words) : \E j \in (i + 1)..Len(words) : SpanText(i, j) = s

\* the windows the scan is to score, and the score of each
Windows(quote_word_count) ==
    {w \in (0..(Len(words) - 1)) \X (1..(quote_word_count + 4)) :
        /\ w[2] >= Max(1, quote_word_count - 2)
        /\ w[1] + w[2] <= Len(words)}
WindowScore(w) == Ratio(Lower(LastClean), SpanText(w[1], w[1] + w[2]))
SameScore(a, b) == a.n * b.d = b.n * a.d
LexLeq(v, w) == v[1] < w[1] \/ (v[1] = w[1] /\ v[2] <= w[2])
Chosen == <<last.result.best_window_indices[1],
            last.result.best_window_indices[2] - last.result.best_window_indices[1]>>

----------------------------------------------------------------------------
(* The window aligner and the emitter, on one (query, page) pair (SpecPair) *)

\* C1, as claimed: whenever the cleaned query (5 characters or more) is a
\* case-insensitive substring of the page text, wherever it starts and ends,
\* the scan ends with best window score 100 on a span whose text is the query.
C1_AnySubstringScores100 ==
    (JustProcessed /\ LastHasText /\ Len(LastClean) >= MinQuoteLen
        /\ IsSubstring(Lower(LastClean), PageText))
    => /\ Scanned
       /\ ScoreIs100(last.result.best_window_score)
       /\ last.result.best_window_indices # None
       /\ SpanText(last.result.best_window_indices[1],
                   last.result.best_window_indices[2]) = Lower(LastClean)

\* C1, amended: whenever the cleaned query (5 characters or more) is,
\* case-insensitively, the text of a run of whole words of the page, the scan
\* (for a threshold up to 100) ends with best window score 100 on a span whose
\* text is the query.
C1_WordRunScores100 ==
    (JustProcessed /\ LastHasText /\ Len(LastClean) >= MinQuoteLen
        /\ IsWordRun(Lower(LastClean)))
    => /\ Scanned
       /\ ScoreIs100(last.result.best_window_score)
       /\ last.result.best_window_indices # None
       /\ SpanText(last.result.best_window_indices[1],
                   last.result.best_window_indices[2]) = Lower(LastClean)

\* a query written in another case and with untidy whitespace is found at
\* words [1, 3) of a three-word page
C1_Witness ==
    /\ JustProcessed
    /\ last.result.outcome = "matched"
    /\ ScoreIs100(last.result.best_window_score)
    /\ last.result.best_window_indices = <<1, 3>>
    /\ IsWordRun(Lower(LastClean))
    /\ LastQuery.text # LastClean
    /\ LastClean # Lower(LastClean)

\* C2: a query whose cleaned text has fewer than 5 characters is skipped and
\* no annotation carries it; a query of exactly 5 cleaned characters is not
\* skipped.
C2_ShortQueriesEmitNothing ==
    /\ \A k \in 1..Len(annotations) :
          Len(QuoteClean(annotations[k].quote)) >= MinQuoteLen
    /\ (JustProcessed /\ LastHasText) =>
          /\ Len(LastClean) < 5 =>
                last.result.outcome = "skipped" /\ Len(annotations) = last.base
          /\ Len(LastClean) >= 5 => last.result.outcome # "skipped"

\* a query of exactly 5 cleaned characters (more before cleaning) is matched
C2_Witness ==
    /\ JustProcessed
    /\ Len(LastClean) = 5
    /\ Len(LastQuery.text) > 5
    /\ last.result.outcome = "matched"
    /\ Len(annotations) > last.base

\* C3: a pair adds annotations only if its best window score is at least the
\* threshold; a pair whose best window score is below it adds none, whatever
\* its prefilter score.
C3_NoMatchBelowThreshold ==
    JustProcessed =>
        /\ Len(annotations) = last.base + Len(last.result.new)
        /\ Len(annotations) > last.base =>
              /\ last.result.outcome = "matched"
              /\ ScoreGE(last.result.best_window_score, threshold)
        /\ (Scanned /\ ~ScoreGE(last.result.best_window_score, threshold)) =>
              Len(annotations) = last.base

\* the prefilter passes at 85 and no window reaches 85
C3_Witness ==
    /\ JustProcessed
    /\ threshold = 85
    /\ last.result.outcome = "nomatch"
    /\ ScoreGE(last.result.score, threshold)
    /\ ~ScoreGE(last.result.best_window_score, threshold)
    /\ ScoreGE(last.result.best_window_score, 1)

\* C6: of the windows that reach the maximum score, the scan keeps the one
\* with the smallest start index and, for that start, the smallest size.
C6_FirstMaximumWins ==
    (JustProcessed /\ Scanned /\ last.result.best_window_indices # None) =>
        /\ Chosen \in Windows(Len(Split(LastClean)))
        /\ SameScore(WindowScore(Chosen), last.result.best_window_score)
        /\ \A w \in Windows(Len(Split(LastClean))) :
              /\ ~ScoreGT(WindowScore(w), last.result.best_window_score)
              /\ SameScore(WindowScore(w), last.result.best_window_score)
                    => LexLeq(Chosen, w)

\* two windows reach the maximum and the match is the first of them
C6_Witness ==
    /\ JustProcessed
    /\ last.result.outcome = "matched"
    /\ \E w \in Windows(Len(Split(LastClean))) :
          /\ w # Chosen
          /\ SameScore(WindowScore(w), last.result.best_window_score)

\* C7: a pair that matches at a threshold matches on the same span at every
\* lower threshold, and a pair that does not match at a threshold does not
\* match at any higher one.
C7_ThresholdMonotone ==
    (JustProcessed /\ LastHasText) =>
        \A t \in Thresholds :
            LET other == ProcessPair(words, LastQuery, t, page_num) IN
            /\ (t < threshold /\ last.result.outcome = "matched") =>
                  /\ other.outcome = "matched"
                  /\ other.best_window_indices = last.result.best_window_indices
            /\ (t > threshold /\ last.result.outcome # "matched") =>
                  other.outcome # "matched"

\* a pair matched at 100, and a pair that passes at 1 and not at 85
C7_Witness ==
    /\ JustProcessed
    /\ threshold = 1
    /\ last.result.outcome = "matched"
    /\ ProcessPair(words, LastQuery, 85, page_num).outcome = "nomatch"

----------------------------------------------------------------------------
(* One invocation and a batch of invocations (Spec) *)

\* C4: a match on the span [start, end) of page p appends exactly end - start
\* annotations, the k-th for the word start + k - 1, with page p (1-based),
\* x = x0, y = y0, width = x1 - x0, height = y1 - y0 and the query's color; a
\* pair that does not match appends nothing.
C4_OneAnnotationPerWord ==
    JustProcessed =>
        IF last.result.outcome = "matched"
        THEN LET start == last.result.best_window_indices[1]
                 end   == last.result.best_window_indices[2]
             IN  /\ Len(annotations) = last.base + (end - start)
                 /\ \A k \in 1..(end - start) :
                       LET a == annotations[last.base + k]
                           w == pdf_bytes.pages[page_num + 1].words[start + k]
                       IN  /\ a.page = page_num + 1
                           /\ a.x = w.x0
                           /\ a.y = w.y0
                           /\ a.width = w.x1 - w.x0
                           /\ a.height = w.y1 - w.y0
                           /\ a.color = (IF LastQuery.has_color THEN LastQuery.color
                                         ELSE DefaultColor)
        ELSE Len(annotations) = last.base

\* a match of two words or more on the second page, after earlier annotations
C4_Witness ==
    /\ JustProcessed
    /\ last.result.outcome = "matched"
    /\ page_num = 1
    /\ last.base > 0
    /\ last.result.best_window_indices[1] > 0
    /\ Len(annotations) >= last.base + 2

\* the raw queries of a list that carry a text
QuoteTexts(quotes) ==
    {quotes[i].text : i \in {j \in 1..Len(quotes) :
                                quotes[j].has_text /\ quotes[j].text_is_str}}

\* C5: the quote of every annotation, in the list being built and in every
\* returned list, is the original text of a query of the input list, and the
\* annotations a match appends carry the original text of the matched query.
C5_QuoteIsOriginalText ==
    /\ \A k \in 1..Len(annotations) : annotations[k].quote \in QuoteTexts(text_quotes)
    /\ \A c \in 1..Len(log) : \A k \in 1..Len(log[c].returned) :
          log[c].returned[k].quote \in QuoteTexts(log[c].text_quotes)
    /\ JustProcessed =>
          \A k \in (last.base + 1)..Len(annotations) :
              annotations[k].quote = LastQuery.text

\* a returned annotation whose quote is not in cleaned form nor in lower case
C5_Witness ==
    /\ pc = "idle"
    /\ \E c \in 1..Len(log) : \E k \in 1..Len(log[c].returned) :
          LET quote == log[c].returned[k].quote
          IN  /\ quote # QuoteClean(quote)
              /\ quote # Lower(quote)
              /\ QuoteClean(quote) # Lower(QuoteClean(quote))

SameInputs(a, b) ==
    /\ a.pdf_bytes = b.pdf_bytes
    /\ a.text_quotes = b.text_quotes
    /\ a.threshold = b.threshold

\* C8: two invocations on the same document, query list and threshold return
\* the same list, element by element, whatever was invoked before them.
C8_Deterministic ==
    \A c \in 1..Len(log) : \A d \in 1..Len(log) :
        SameInputs(log[c], log[d]) =>
            /\ log[c].returned = log[d].returned
            /\ log[c].warnings = log[d].warnings

\* the same inputs twice, with a list that is not empty
C8_Witness ==
    /\ Len(log) = 2
    /\ SameInputs(log[1], log[2])
    /\ Len(log[2].returned) >= 2

ParseFailed(c) == log[c].e.kind \in {"open", "page"}

\* C9: an invocation whose document fails to parse, on opening or
\* on a later page, returns the empty list and warns once.
C9_ParseFailureReturnsEmpty ==
    \A c \in 1..Len(log) :
        ParseFailed(c) => log[c].returned = <<>> /\ log[c].warnings = 1

\* lines 42-120 as a function of the arguments alone: the queries of a page
\* from the k-th on, then the pages from the p-th on (0-based)
RECURSIVE RunQueries(_, _, _, _, _, _)
RunQueries(ws, queries, thr, pnum, k, anns) ==
    IF k > Len(queries) THEN [returned |-> anns, warnings |-> 0]
    ELSE LET r == ProcessPair(ws, queries[k], thr, pnum) IN
         IF r.outcome = "raised" THEN [returned |-> anns, warnings |-> 1]
         ELSE RunQueries(ws, queries, thr, pnum, k + 1, anns \o r.new)

RECURSIVE RunPages(_, _, _, _, _)
RunPages(doc, queries, thr, pnum, anns) ==
    IF pnum >= Len(doc.pages) THEN [returned |-> anns, warnings |-> 0]
    ELSE IF ~doc.pages[pnum + 1].readable THEN [returned |-> anns, warnings |-> 1]
    ELSE LET r == RunQueries(doc.pages[pnum + 1].words, queries, thr, pnum, 1, anns) IN
         IF r.warnings > 0 THEN r
         ELSE RunPages(doc, queries, thr, pnum + 1, r.returned)

ResultOf(doc, quotes, thr) ==
    IF ~doc.openable THEN [returned |-> <<>>, warnings |-> 1]
    ELSE RunPages(doc, NormalizeQueries(quotes), thr, 0, <<>>)

\* the annotation a is on a word of the document doc
OnWordOf(a, doc) ==
    /\ a.page \in 1..Len(doc.pages)
    /\ \E k \in 1..Len(doc.pages[a.page].words) :
          LET w == doc.pages[a.page].words[k]
          IN  a.x = w.x0 /\ a.y = w.y0 /\ a.width = w.x1 - w.x0 /\ a.height = w.y1 - w.y0

\* C10: the list an invocation returns is the one its own document, query
\* list and threshold determine, whatever the earlier invocations of the batch
\* did (failed to parse or not), and each of its annotations is on a word of
\* its own document.
C10_DocumentsIndependent ==
    (pc = "idle" /\ log # <<>>) =>
        LET it == log[Len(log)]
            alone == ResultOf(it.pdf_bytes, it.text_quotes, it.threshold)
        IN  /\ it.returned = alone.returned
            /\ it.warnings = alone.warnings
            /\ \A k \in 1..Len(it.returned) : OnWordOf(it.returned[k], it.pdf_bytes)

\* a parseable document that yields annotations, right after a document that
\* failed to parse on its second page and yielded annotations of its own
C10_Witness ==
    /\ pc = "idle"
    /\ Len(log) = 2
    /\ log[1].e.kind = "page"
    /\ log[1].returned # <<>>
    /\ log[2].e.kind = "none"
    /\ log[2].pdf_bytes # log[1].pdf_bytes
    /\ log[2].returned # <<>>

----------------------------------------------------------------------------
(* The prefilter against the window scan, on one (query, page) pair (SpecPair) *)

\* the best score the scan of lines 83-98 finds for the pair just processed,
\* whether or not the code ran the scan
BestWindowOfLast == WindowScan(words, LastClean)

\* C11: the prefilter changes no result: whenever a window of the page scores
\* at least the threshold against the cleaned query (5 characters or more), the
\* whole-page partial score is at least the threshold too, so the pair is not
\* filtered out and the match is emitted.
C11_PrefilterChangesNoResult ==
    (/\ JustProcessed
     /\ LastHasText
     /\ Len(LastClean) >= MinQuoteLen
     /\ BestWindowOfLast.indices # None
     /\ ScoreGE(BestWindowOfLast.score, threshold))
        => /\ ScoreGE(PrefilterScore(LastClean, words), threshold)
           /\ last.result.outcome = "matched"

----------------------------------------------------------------------------
(* The order of processing and of the returned list (Spec) *)

\* the position, in the normalized list, of the query that produced the
\* annotation a: the first one with its quote and its resolved color
QueryIndexOf(a, queries) ==
    CHOOSE k \in 1..Len(queries) :
        /\ queries[k].has_text /\ queries[k].text_is_str
        /\ queries[k].text = a.quote /\ QueryColor(queries[k]) = a.color
        /\ \A j \in 1..(k - 1) :
              ~(/\ queries[j].has_text /\ queries[j].text_is_str
                /\ queries[j].text = a.quote /\ QueryColor(queries[j]) = a.color)

\* the list anns is ordered by query first
QueryMajor(anns, queries) ==
    \A i \in 1..Len(anns) : \A j \in (i + 1)..Len(anns) :
        QueryIndexOf(anns[i], queries) <= QueryIndexOf(anns[j], queries)

\* the list anns is ordered by page, then by query, then by word position
PageMajor(anns, queries) ==
    \A i \in 1..Len(anns) : \A j \in (i + 1)..Len(anns) :
        \/ anns[i].page < anns[j].page
        \/ /\ anns[i].page = anns[j].page
           /\ \/ QueryIndexOf(anns[i], queries) < QueryIndexOf(anns[j], queries)
              \/ /\ QueryIndexOf(anns[i], queries) = QueryIndexOf(anns[j], queries)
                 /\ anns[i].x < anns[j].x

\* C12, as claimed: processing is query-major, so in every returned list all
\* annotations of an earlier query precede all annotations of a later query.
C12_QueryMajorOrder ==
    \A c \in 1..Len(log) :
        QueryMajor(log[c].returned, NormalizeQueries(log[c].text_quotes))

\* C12, amended: processing is page-major. The list being built and the list
\* an invocation returns are ordered by page; within a page by the position of the
\* query in the input list; within one (query, page) pair by word position.
\* While a page is being processed, its annotations come from queries already
\* taken on that page, and no annotation is on a later page.
C12_PageMajorOrder ==
    /\ (pc = "idle" /\ log # <<>>) =>
          PageMajor(log[Len(log)].returned, NormalizeQueries(log[Len(log)].text_quotes))
    /\ pc # "idle" =>
          /\ PageMajor(annotations, normalized_queries)
          /\ \A k \in 1..Len(annotations) :
                /\ annotations[k].page <= page_num + 1
                /\ (pc = "query" /\ annotations[k].page = page_num + 1)
                      => QueryIndexOf(annotations[k], normalized_queries) < qi

\* a returned list in which an annotation of the second query on page 1 comes
\* before an annotation of the first query on page 2
C12_Witness ==
    \E c \in 1..Len(log) :
        LET ret == log[c].returned
            queries == NormalizeQueries(log[c].text_quotes)
        IN  \E i \in 1..Len(ret) : \E j \in (i + 1)..Len(ret) :
                /\ ret[i].page = 1 /\ QueryIndexOf(ret[i], queries) = 2
                /\ ret[j].page = 2 /\ QueryIndexOf(ret[j], queries) = 1

----------------------------------------------------------------------------
(* Malformed query records (Spec) *)

\* a query whose text the loop body can read and clean (lines 61 and 65)
WellFormed(q) == q.kind = "str" \/ (q.kind = "dict" /\ q.has_text /\ q.text_is_str)
WellFormedOnly(quotes) == SelectSeq(quotes, WellFormed)

FullyParseable(doc) ==
    doc.openable /\ \A p \in 1..Len(doc.pages) : doc.pages[p].readable

\* C13: a document parse failure is the only condition that stops the
\* processing of a document early: an invocation on a fully parseable document
\* ends without an exception and returns what its well-formed queries alone
\* produce on all the pages, whatever malformed records the list holds beside
\* them (stated for thresholds from 1 on, where no well-formed query raises).
C13_OnlyParseFailureStopsEarly ==
    \A c \in 1..Len(log) :
        (FullyParseable(log[c].pdf_bytes) /\ log[c].threshold >= 1) =>
            /\ log[c].e.kind = "none"
            /\ log[c].returned =
                  ResultOf(log[c].pdf_bytes, WellFormedOnly(log[c].text_quotes),
                           log[c].threshold).returned

----------------------------------------------------------------------------
(* Queries that share words (Spec) *)

\* the annotations of the list anns that the query at position k produced
RECURSIVE OfQuery(_, _, _)
OfQuery(anns, queries, k) ==
    IF anns = <<>> THEN <<>>
    ELSE (IF QueryIndexOf(Head(anns), queries) = k THEN <<Head(anns)>> ELSE <<>>)
            \o OfQuery(Tail(anns), queries, k)

\* C14: no deduplication across queries. A matched pair appends one annotation
\* for each word of its span, whatever the list already holds for these words,
\* and the outcome of one query never changes the annotations of another: in
\* every returned list, the annotations of each well-formed query are those the
\* query produces when it is the only one of the list.
C14_QueriesIndependent ==
    /\ (JustProcessed /\ last.result.outcome = "matched") =>
          /\ Len(last.result.new) =
                last.result.best_window_indices[2] - last.result.best_window_indices[1]
          /\ annotations = SubSeq(annotations, 1, last.base) \o last.result.new
    /\ \A c \in 1..Len(log) :
          LET queries == NormalizeQueries(log[c].text_quotes)
          IN  \A k \in 1..Len(queries) :
                 WellFormed(queries[k]) =>
                    OfQuery(log[c].returned, queries, k) =
                       ResultOf(log[c].pdf_bytes, <<queries[k]>>, log[c].threshold).returned

----------------------------------------------------------------------------
(* The inputs of an invocation (Spec) *)

\* C15: find_text_fuzzy leaves its inputs unchanged: from the call to the
\* return, no step changes the caller's query list or a record of it (text
\* and color fields, no key added or removed), nor the document's pages and
\* words, whether the invocation matches, does not match, or fails.
C15_InputsUnchanged ==
    [][pc # "idle" => (text_quotes' = text_quotes /\ pdf_bytes' = pdf_bytes)]_vars

\* an invocation that failed and one that matched a record without a color
\* field have both returned
C15_Witness ==
    /\ pc = "idle"
    /\ Len(log) = 2
    /\ log[1].e.kind # "none"
    /\ log[2].e.kind = "none"
    /\ \E k \in 1..Len(log[2].text_quotes) :
          /\ log[2].text_quotes[k].kind = "dict"
          /\ ~log[2].text_quotes[k].has_color
          /\ \E j \in 1..Len(log[2].returned) :
                log[2].returned[j].quote = log[2].text_quotes[k].text

----------------------------------------------------------------------------
(* Query normalization and colors (Spec) *)

\* the record {text, color} a query stands for
Canonical(q) ==
    IF q.kind = "str" THEN DictQuery(q.text, "rgba(255, 255, 0, 0.4)")
    ELSE IF q.kind = "dict" /\ ~q.has_color
         THEN [q EXCEPT !.has_color = TRUE, !.color = "rgba(255, 255, 0, 0.4)"]
         ELSE q
CanonicalList(quotes) == [k \in 1..Len(quotes) |-> Canonical(quotes[k])]

\* C16: a bare-string query s behaves exactly as the record {text: s, color: C}
\* and a record without a color field exactly as the same record with color C,
\* C being "rgba(255, 255, 0, 0.4)"; a record with an explicit color keeps it;
\* every annotation produced for a query carries that resolved color. Every
\* normalized entry is a record, and the list an invocation returns is the one
\* the list of the canonical records returns.
C16_UniformQueries ==
    /\ \A k \in 1..Len(normalized_queries) : normalized_queries[k].kind = "dict"
    /\ (JustProcessed /\ last.result.outcome = "matched") =>
          LET src == text_quotes[SourceIndex(text_quotes, last.qi, 1)]
              resolved == IF src.kind = "dict" /\ src.has_color THEN src.color
                          ELSE "rgba(255, 255, 0, 0.4)"
          IN  \A j \in 1..Len(last.result.new) : last.result.new[j].color = resolved
    /\ (pc = "idle" /\ log # <<>>) =>
          LET it == log[Len(log)]
              canon == ResultOf(it.pdf_bytes, CanonicalList(it.text_quotes), it.threshold)
          IN  it.returned = canon.returned /\ it.warnings = canon.warnings

\* both a bare string and a record without color, and a record with an
\* explicit color other than C, have produced annotations
C16_Witness ==
    /\ Len(log) = 2
    /\ \E j \in 1..Len(log[1].returned) :
          /\ log[1].returned[j].color = "rgba(255, 255, 0, 0.4)"
          /\ \E k \in 1..Len(log[1].text_quotes) :
                /\ log[1].text_quotes[k].kind = "str"
                /\ log[1].text_quotes[k].text = log[1].returned[j].quote
    /\ \E j \in 1..Len(log[2].returned) :
          /\ log[2].returned[j].color = "rgba(255, 255, 0, 0.4)"
          /\ \E k \in 1..Len(log[2].text_quotes) :
                /\ log[2].text_quotes[k].kind = "dict"
                /\ ~log[2].text_quotes[k].has_color
                /\ log[2].text_quotes[k].text = log[2].returned[j].quote
    /\ \E j \in 1..Len(log[2].returned) :
          log[2].returned[j].color = "rgba(255, 165, 0, 0.5)"

----------------------------------------------------------------------------
(* The outcomes of a (query, page) pair (SpecPair) *)

\* C17: each (query, page) pair ends in exactly one of the outcomes skipped as
\* degenerate, filtered out, scanned then matched, scanned then not matched.
\* The window scan runs only after the query passed the length check and the
\* prefilter score was at or above the threshold; a skipped or filtered pair
\* scores no window; a pair yields at most one span.
C17_FourOutcomes ==
    JustProcessed =>
        /\ last.result.outcome \in {"skipped", "filtered", "matched", "nomatch"}
        /\ last.result.outcome \in {"matched", "nomatch"} =>
              /\ Len(LastClean) >= MinQuoteLen
              /\ ScoreGE(last.result.score, threshold)
        /\ last.result.outcome \in {"skipped", "filtered"} =>
              /\ last.result.scored = <<>>
              /\ last.result.new = <<>>
        /\ last.result.outcome = "skipped" <=> Len(LastClean) < MinQuoteLen
        /\ last.result.outcome = "matched" =>
              last.result.new =
                 Emit(words, last.result.best_window_indices, page_num, LastQuery)
        /\ last.result.outcome = "nomatch" => last.result.new = <<>>

----------------------------------------------------------------------------
(* The windows of the scan (SpecPair) *)

\* the windows the scan of the pair just processed has scored
ScoredWindows == {last.result.scored[k] : k \in 1..Len(last.result.scored)}

\* C18: for a scanned pair, Q the number of tokens of the cleaned query and n
\* the number of words of the page, the windows scored are exactly the (i, k)
\* with 0 <= i < n, max(1, Q-2) <= k <= Q+4 and i+k <= n, each scored once.
C18_ScoredWindows ==
    (JustProcessed /\ Scanned) =>
        /\ ScoredWindows = Windows(Len(Split(LastClean)))
        /\ Cardinality(ScoredWindows) = Len(last.result.scored)

\* a scanned pair whose smallest window has more than one word and whose page
\* holds windows of the largest size and would hold larger ones
C18_Witness ==
    /\ JustProcessed
    /\ Scanned
    /\ Len(Split(LastClean)) - 2 > 1
    /\ Len(words) > Len(Split(LastClean)) + 4
    /\ <<0, Len(Split(LastClean)) + 4>> \in ScoredWindows
    /\ <<Len(words) - 1, 1>> \notin ScoredWindows

----------------------------------------------------------------------------
(* Exceptions on well-formed inputs (Spec) *)

AllWellFormed(quotes) == \A k \in 1..Len(quotes) : WellFormed(quotes[k])

\* C19: for a parseable document and a list of well-formed queries,
\* find_text_fuzzy never raises and never warns, whatever the outcomes of the
\* pairs, on pages of any size including empty pages, and for every threshold
\* the caller passes in 0..100.
C19_NoWarningOnWellFormedInputs ==
    /\ (pc # "idle" /\ FullyParseable(pdf_bytes) /\ AllWellFormed(text_quotes)) =>
          /\ pc # "except"
          /\ warnings = 0
          /\ e.kind = "none"
    /\ \A c \in 1..Len(log) :
          (FullyParseable(log[c].pdf_bytes) /\ AllWellFormed(log[c].text_quotes)) =>
              log[c].warnings = 0 /\ log[c].e.kind = "none"

----------------------------------------------------------------------------
(* The recorded span (SpecPair) *)

\* C20: for every threshold from 1 to 100, whenever the acceptance test (best
\* window score >= threshold) passes for a scanned pair, the recorded span is
\* defined, 0 <= start < end <= number of words of the page and
\* max(1, Q-2) <= end - start <= Q+4; the pair then matches, and every
\* annotation it emits is on a word of the span, on an existing page.
C20_SpanInvariant ==
    (/\ JustProcessed
     /\ Scanned
     /\ threshold \in 1..100
     /\ ScoreGE(last.result.best_window_score, threshold)) =>
        LET span == last.result.best_window_indices
            Q == Len(Split(LastClean))
        IN  /\ span # None
            /\ Len(span) = 2
            /\ 0 <= span[1] /\ span[1] < span[2] /\ span[2] <= Len(words)
            /\ Max(1, Q - 2) <= span[2] - span[1]
            /\ span[2] - span[1] <= Q + 4
            /\ last.result.outcome = "matched"
            /\ Len(last.result.new) = span[2] - span[1]
            /\ \A j \in 1..Len(last.result.new) :
                  /\ last.result.new[j].page \in 1..Len(pdf_bytes.pages)
                  /\ last.result.new[j].x = words[span[1] + j].x0
                  /\ last.result.new[j].y = words[span[1] + j].y0
                  /\ OnWordOf(last.result.new[j], pdf_bytes)

\* the acceptance test passes at threshold 1 with a best window that scores
\* below the default threshold and does not start at the first word
C20_Witness ==
    /\ JustProcessed
    /\ Scanned
    /\ threshold = 1
    /\ ScoreGE(last.result.best_window_score, threshold)
    /\ ~ScoreGE(last.result.best_window_score, 85)
    /\ last.result.best_window_indices # None
    /\ last.result.best_window_indices[1] > 0
    /\ last.result.outcome = "matched"

----------------------------------------------------------------------------
(* An exception after some pairs were handled (Spec) *)

\* the annotations of the queries k..upto on the page pnum with words ws, a
\* pair that raises giving none
RECURSIVE OfPairs(_, _, _, _, _, _)
OfPairs(ws, queries, thr, pnum, k, upto) ==
    IF k > upto THEN <<>>
    ELSE ProcessPair(ws, queries[k], thr, pnum).new
            \o OfPairs(ws, queries, thr, pnum, k + 1, upto)

\* the annotations of all the queries on the pages p..upto - 1 (0-based)
RECURSIVE OfPages(_, _, _, _, _)
OfPages(doc, queries, thr, p, upto) ==
    IF p >= upto THEN <<>>
    ELSE OfPairs(doc.pages[p + 1].words, queries, thr, p, 1, Len(queries))
            \o OfPages(doc, queries, thr, p + 1, upto)

\* the first query that raises on the page pnum
FirstRaising(ws, queries, thr, pnum) ==
    CHOOSE k \in 1..Len(queries) :
        /\ ProcessPair(ws, queries[k], thr, pnum).outcome = "raised"
        /\ \A j \in 1..(k - 1) : ProcessPair(ws, queries[j], thr, pnum).outcome # "raised"

\* the annotations of the pairs handled before the step at which the
\* invocation it failed
HandledBefore(it) ==
    LET queries == NormalizeQueries(it.text_quotes)
        ws == it.pdf_bytes.pages[it.e.page_num + 1].words
    IN  IF it.e.kind = "open" THEN <<>>
        ELSE OfPages(it.pdf_bytes, queries, it.threshold, 0, it.e.page_num)
                \o (IF it.e.kind = "page" THEN <<>>
                    ELSE OfPairs(ws, queries, it.threshold, it.e.page_num, 1,
                                 FirstRaising(ws, queries, it.threshold, it.e.page_num) - 1))

\* the output had no step failed: every pair of every page, a failing page or
\* pair giving nothing
FailureFree(it) ==
    OfPages(it.pdf_bytes, NormalizeQueries(it.text_quotes), it.threshold, 0,
            Len(it.pdf_bytes.pages))

\* the state part of C21
C21_AfterException ==
    /\ (pc \in {"except", "return"} /\ e.kind # "none") =>
          /\ Len(annotations) = e.appended
          /\ warnings = (IF pc = "return" THEN 1 ELSE 0)
    /\ (pc = "idle" /\ log # <<>> /\ log[Len(log)].e.kind # "none") =>
          LET it == log[Len(log)]
          IN  /\ it.warnings = 1
              /\ it.returned = HandledBefore(it)
              /\ Len(it.returned) <= Len(FailureFree(it))
              /\ it.returned = SubSeq(FailureFree(it), 1, Len(it.returned))

\* the step part of C21: from the exception on, the invocation only warns and
\* returns
C21_NoStepAfterException ==
    pc \in {"except", "return"} =>
        /\ annotations' = annotations
        /\ page_num' = page_num
        /\ qi' = qi
        /\ pc' = (IF pc = "except" THEN "return" ELSE "idle")
        /\ pc = "return" => /\ warnings' = warnings
                            /\ log' = Append(log, log'[Len(log')])
                            /\ log'[Len(log')].returned = annotations
                            /\ log'[Len(log')].warnings = warnings

\* C21: when an exception occurs inside find_text_fuzzy after some (query,
\* page) pairs were handled, the function returns exactly the annotations
\* appended before the failing step (a prefix of the failure-free output, not
\* necessarily empty), appends nothing afterwards, processes no remaining
\* query or page, and emits exactly one warning.
C21_ExceptionReturnsPrefix ==
    []C21_AfterException /\ [][C21_NoStepAfterException]_vars

\* a query raised on the first page after a match of an earlier query; the
\* annotations of that match are returned, fewer than the failure-free output
C21_Witness ==
    /\ pc = "idle"
    /\ log # <<>>
    /\ log[Len(log)].e.kind = "query"
    /\ log[Len(log)].returned # <<>>
    /\ Len(log[Len(log)].returned) < Len(FailureFree(log[Len(log)]))

====
